---- MODULE Spec2Model ----
(***************************************************************************)
(* Model of the ZigBee request/response correlation engine of zigbee.py:   *)
(* ZigBeeHelper.next_frame_id, _frame_received, _send, _send_and_wait and  *)
(* raise_if_error, and of the pin operations built on it: get_sample,      *)
(* read_digital_pin, read_analog_pin, set_gpio_pin and get_gpio_pin.       *)
(*                                                                         *)
(* Callers are threads that call into a helper; the transport (the xbee    *)
(* library's reader thread) delivers frames through _frame_received at any *)
(* moment.  Every statement that reads or writes shared state is one step, *)
(* so that threads interleave between statements as Python threads do.     *)
(*                                                                         *)
(* Time is counted in ticks of the poll interval, sleep(0.1) at line 214:  *)
(* a sleep lasts one tick and every other statement takes no time.         *)
(***************************************************************************)
EXTENDS Integers, FiniteSets, Sequences, TLC

\* ------------------------------------------------------------------ bounds

\* RX_TIMEOUT (line 21) is 10 s, which is 100 poll intervals; the model
\* scales it down to this many ticks.
RxTimeoutTicks == 2
\* _send_and_wait calls one caller makes in a run.
MaxCalls == 2
\* next_frame_id calls one caller makes in a run of the allocator alone.
MaxAllocs == 300
\* Responses the transport holds undelivered at one time.
MaxPending == 2
\* Status bytes the transport answers with: 0..MaxStatus and 0xFF.
MaxStatus == 4
\* Parameter bytes a module answers a pin query with: 0..MaxParam.
MaxParam == 6
\* Pin numbers the pin operations are called with: -MaxPin-1 .. MaxPin.
MaxPin == 9

\* --------------------------------------------------------------- constants

\* Highest frame ID, 0xFF at line 171.
MaxFrameId == 255
\* One sleep(0.1) of line 214, in ticks.
PollTicks == 1

Callers == {1, 2}
Helpers == {1, 2}

\* The status bytes of a frame, b"\x00" .. b"\xff", as the transport draws them.
StatusBytes == (0 .. MaxStatus) \cup {MaxFrameId}

\* ------------------------------------------------------------------- state

VARIABLES
  _frame_id,   \* _frame_id[h]: the counter of helper h (line 156, an instance
               \* attribute once line 170 has assigned it)
  _rx_frames,  \* the class attribute of line 155: one dict shared by every helper
  pending,     \* transport: the requests sent whose response is on its way
  pc,          \* pc[c]: the statement caller c executes next
  op,          \* op[c]: the method caller c called
  inst,        \* inst[c]: the helper caller c calls into (self)
  fid,         \* fid[c]: the local fid of next_frame_id (line 169)
  tmp,         \* tmp[c]: the value loaded by self._frame_id += 1 before it is stored
  frame_id,    \* frame_id[c]: the local frame_id of _send_and_wait (line 204)
  elapsed,     \* elapsed[c]: ticks since line 207 set the deadline
  frame,       \* frame[c]: the local frame of _send_and_wait (line 210)
  result,      \* result[c]: how the last call of c ended
  calls,       \* calls[c]: calls started by c
  limit,       \* limit[c]: calls c makes in this run
  matched,     \* history: a frame carrying frame_id[c] was delivered since
               \* next_frame_id returned it
  timedout,    \* history: the requests whose call raised ZigBeeResponseTimeout
  consumed,    \* history: the requests whose response line 210 has popped
  kwargs,      \* kwargs[c]: the keyword arguments of c's _send_and_wait call
  sent,        \* sent[c]: the transport calls (at, remote_at) of c's current call
  pins,        \* the radio modules: the byte last written for (destination, command)
  cop,         \* cop[c]: the pin operation c called, with its arguments
  cres,        \* cres[c]: how that pin operation ended
  rx           \* history: whether the last step was a call of _frame_received,
               \* and then the frame passed and whether an entry lay under its
               \* frame ID already

\* The variables the steps inside next_frame_id and the wait loop leave alone.
extra == <<kwargs, sent, pins, cop, cres>>

vars == <<_frame_id, _rx_frames, pending, pc, op, inst, fid, tmp, frame_id,
          elapsed, frame, result, calls, limit, matched, timedout, consumed,
          extra, rx>>

\* -------------------------------------------------------------- Python dict

EmptyDict == << >>

DictPut(d, k, v) == [x \in DOMAIN d \cup {k} |-> IF x = k THEN v ELSE d[x]]

DictDel(d, k) == [x \in DOMAIN d \ {k} |-> d[x]]

\* ------------------------------------------------------------------ frames

\* A frame is a dict: "frame_id", "status" and "parameter" are keys it may
\* lack.  "req", "during" and "late" are history the code never reads: the
\* request the frame answers, the requests that were waiting under its frame
\* ID when it was delivered, and those of them whose call was then within
\* one poll interval of its deadline, its attempt of line 210 made, or past
\* the deadline (Receive stamps both).
NoRequest == <<0, 0>>

MkFrame(id, req) == [frame_id |-> id, req |-> req, during |-> {}, late |-> {}]

NoFrame == [req |-> NoRequest, during |-> {}, late |-> {}]

\* The value of rx after a step that is not a call of _frame_received.
NoDelivery == [called |-> FALSE, frame |-> NoFrame, replaced |-> FALSE]

\* bytes(bytearray((n,))) of line 169 raises ValueError unless n is one byte;
\* otherwise it is the byte n, which the model writes n.
ByteOfRaises(n) == n \notin 0 .. 255

\* _frame_received storing with setdefault: an entry already under the frame
\* ID is kept.
_frame_received_keep_first(d, f) ==
  IF "frame_id" \in DOMAIN f /\ f["frame_id"] \notin DOMAIN d
  THEN DictPut(d, f["frame_id"], f)
  ELSE d

\* _frame_received, lines 183-187: a frame with a frame_id is stored under it,
\* one without raises KeyError, which is swallowed.
_frame_received(d, f) ==
  IF "frame_id" \in DOMAIN f THEN DictPut(d, f["frame_id"], f) ELSE d

\* ---------------------------------------------------------- raise_if_error

codes_and_exceptions ==
  [x \in 1 .. 4 |->
     CASE x = 1 -> "ZigBeeUnknownError"
       [] x = 2 -> "ZigBeeInvalidCommand"
       [] x = 3 -> "ZigBeeInvalidParameter"
       [] x = 4 -> "ZigBeeTxFailure"]

\* raise_if_error without its last line: a status byte outside the table
\* raises nothing.
raise_if_error_no_catch_all(f) ==
  IF "status" \notin DOMAIN f \/ f["status"] = 0
  THEN "None"
  ELSE IF f["status"] \in DOMAIN codes_and_exceptions
       THEN codes_and_exceptions[f["status"]]
       ELSE "None"

\* raise_if_error testing only for the missing key at line 129: status byte 0
\* falls through to the table and on to the last line.
raise_if_error_zero_is_error(f) ==
  IF "status" \notin DOMAIN f
  THEN "None"
  ELSE IF f["status"] \in DOMAIN codes_and_exceptions
       THEN codes_and_exceptions[f["status"]]
       ELSE "ZigBeeUnknownStatus"

\* The exception raise_if_error raises for a frame, "None" when it returns.
raise_if_error(f) ==
  IF "status" \notin DOMAIN f \/ f["status"] = 0
  THEN "None"
  ELSE IF f["status"] \in DOMAIN codes_and_exceptions
       THEN codes_and_exceptions[f["status"]]
       ELSE "ZigBeeUnknownStatus"

StatusErrors == {"ZigBeeUnknownError", "ZigBeeInvalidCommand",
                 "ZigBeeInvalidParameter", "ZigBeeTxFailure",
                 "ZigBeeUnknownStatus"}

\* -------------------------------------------------------------- pin tables

\* t[i] of a Python tuple raises IndexError outside -len(t) .. len(t)-1.
TupleIndexRaises(t, i) == i >= Len(t) \/ i < 0 - Len(t)

\* t[i] of a Python tuple: a negative index counts from the end.
TupleIndex(t, i) == IF i >= 0 THEN t[i + 1] ELSE t[Len(t) + i + 1]

DIGITAL_PINS ==
  <<"dio-0", "dio-1", "dio-2", "dio-3", "dio-4", "dio-5",
    "dio-10", "dio-11", "dio-12">>

ANALOG_PINS == <<"adc-0", "adc-1", "adc-2", "adc-3">>

IO_PIN_COMMANDS == <<"D0", "D1", "D2", "D3", "D4", "D5", "P0", "P1", "P2">>

\* GPIOSetting(name, value); the value is one byte, written as its number.
GPIOSetting(name, value) == [name |-> name, value |-> value]

GPIO_DISABLED == GPIOSetting("DISABLED", 0)
GPIO_STANDARD_FUNC == GPIOSetting("STANDARD_FUNC", 1)
GPIO_ADC == GPIOSetting("ADC", 2)
GPIO_DIGITAL_INPUT == GPIOSetting("DIGITAL_INPUT", 3)
GPIO_DIGITAL_OUTPUT_LOW == GPIOSetting("DIGITAL_OUTPUT_LOW", 4)
GPIO_DIGITAL_OUTPUT_HIGH == GPIOSetting("DIGITAL_OUTPUT_HIGH", 5)

\* GPIO_SETTINGS with the entries of the two digital outputs exchanged.
GPIO_SETTINGS_outputs_swapped ==
  DictPut(DictPut(DictPut(DictPut(DictPut(DictPut(EmptyDict,
    GPIO_DISABLED.value, GPIO_DISABLED),
    GPIO_STANDARD_FUNC.value, GPIO_STANDARD_FUNC),
    GPIO_ADC.value, GPIO_ADC),
    GPIO_DIGITAL_INPUT.value, GPIO_DIGITAL_INPUT),
    GPIO_DIGITAL_OUTPUT_LOW.value, GPIO_DIGITAL_OUTPUT_HIGH),
    GPIO_DIGITAL_OUTPUT_HIGH.value, GPIO_DIGITAL_OUTPUT_LOW)

\* The dict of lines 55-62: from the byte to the setting.
GPIO_SETTINGS ==
  DictPut(DictPut(DictPut(DictPut(DictPut(DictPut(EmptyDict,
    GPIO_DISABLED.value, GPIO_DISABLED),
    GPIO_STANDARD_FUNC.value, GPIO_STANDARD_FUNC),
    GPIO_ADC.value, GPIO_ADC),
    GPIO_DIGITAL_INPUT.value, GPIO_DIGITAL_INPUT),
    GPIO_DIGITAL_OUTPUT_LOW.value, GPIO_DIGITAL_OUTPUT_LOW),
    GPIO_DIGITAL_OUTPUT_HIGH.value, GPIO_DIGITAL_OUTPUT_HIGH)

\* GPIO_SETTINGS.values().
Settings == {GPIO_SETTINGS[v] : v \in DOMAIN GPIO_SETTINGS}

\* The exception classes of lines 76-108: ZigBeeException and its subclasses.
ZigBeeExceptions ==
  {"ZigBeeException", "ZigBeeResponseTimeout", "ZigBeeUnknownError",
   "ZigBeeInvalidCommand", "ZigBeeInvalidParameter", "ZigBeeTxFailure",
   "ZigBeeUnknownStatus", "ZigBeePinNotConfigured"}

\* ------------------------------------------------------------ radio module

\* dest_addr_long: None for the local module, or the address of a remote one.
Dests == {"None", "remote"}

\* d.get(k): the value under k, None when d lacks the key.
DictGet(d, k) == IF k \in DOMAIN d THEN d[k] ELSE "None"

\* The samples a module answers IS with: dicts from pin name to value, here
\* with no pin or one pin configured, or the first digital and the first
\* analog pin with different values.
SampleNames ==
  {DIGITAL_PINS[i] : i \in DOMAIN DIGITAL_PINS} \cup
  {ANALOG_PINS[i] : i \in DOMAIN ANALOG_PINS}

Samples ==
  {EmptyDict, [n \in {"dio-0", "adc-0"} |-> IF n = "dio-0" THEN 0 ELSE 1]}
  \cup {[m \in {n} |-> 1] : n \in SampleNames}

\* The parameter bytes a module answers a pin query with when nothing was
\* written for the pin: 0 .. MaxParam.
ParamBytes == 0 .. MaxParam

\* A request on its way: the keyword arguments it was sent with, and the
\* request it is (history).
Sent(rq, req) == [rq |-> rq, req |-> req]

\* The frames a module answers a request rq with when it carries it out, and
\* the module's memory after it: a pin command with a parameter is recorded
\* and acknowledged, one without is answered with the byte recorded, or with
\* any byte when nothing was; IS is answered with a sample, or with no
\* parameter; every other command is acknowledged.
ModuleAnswers(rq, mem, req) ==
  LET base == MkFrame(rq["frame_id"], req)
      key == <<DictGet(rq, "dest_addr_long"), rq["command"]>>
      IsPin == \E i \in DOMAIN IO_PIN_COMMANDS : IO_PIN_COMMANDS[i] = rq["command"]
  IN  IF IsPin /\ "parameter" \in DOMAIN rq
      THEN {[frame |-> base, pins |-> DictPut(mem, key, rq["parameter"])]}
      ELSE IF IsPin
      THEN {[frame |-> DictPut(base, "parameter", b), pins |-> mem] :
              b \in IF key \in DOMAIN mem THEN {mem[key]} ELSE ParamBytes}
      ELSE IF rq["command"] = "IS"
      THEN {[frame |-> DictPut(base, "parameter", <<s>>), pins |-> mem] : s \in Samples}
           \cup {[frame |-> base, pins |-> mem]}
      ELSE {[frame |-> base, pins |-> mem]}

\* ----------------------------------------------------------------- results

NoResult == [kind |-> "none"]

Returned(f) == [kind |-> "return", frame |-> f]

ReturnedId(n) == [kind |-> "return", id |-> n]

Raised(e) == [kind |-> "raise", exc |-> e]

\* The request of caller c's current call.
Req(c) == <<c, calls[c]>>

\* Caller c is inside a pin operation that has not ended.
CodecOpen(c) == Len(cres[c]) < Len(cop[c])

Idle(c) == pc[c] \in {"idle", "done"} /\ ~CodecOpen(c)

\* -------------------------------------------------------------------- Init

InitCommon ==
  /\ _rx_frames = EmptyDict
  /\ pc = [c \in Callers |-> "idle"]
  /\ op = [c \in Callers |-> "none"]
  /\ fid = [c \in Callers |-> 0]
  /\ tmp = [c \in Callers |-> 0]
  /\ frame_id = [c \in Callers |-> 0]
  /\ elapsed = [c \in Callers |-> 0]
  /\ frame = [c \in Callers |-> NoFrame]
  /\ result = [c \in Callers |-> NoResult]
  /\ calls = [c \in Callers |-> 0]
  /\ matched = [c \in Callers |-> FALSE]
  /\ consumed = {}
  /\ kwargs = [c \in Callers |-> EmptyDict]
  /\ sent = [c \in Callers |-> << >>]
  /\ pins = EmptyDict
  /\ cop = [c \in Callers |-> << >>]
  /\ cres = [c \in Callers |-> << >>]
  /\ rx = NoDelivery

\* Helpers as constructed (lines 155-160), and nothing sent yet.
InitFresh ==
  /\ InitCommon
  /\ inst = [c \in Callers |-> 1]
  /\ _frame_id = [h \in Helpers |-> 1]
  /\ pending = {}
  /\ timedout = {}

\* One caller, one helper, MaxCalls calls of _send_and_wait.
Init ==
  /\ InitFresh
  /\ limit = [c \in Callers |-> IF c = 1 THEN MaxCalls ELSE 0]

\* ----------------------------------------------------------- entry points

Enter(c, method, kw) ==
  /\ Idle(c)
  /\ kwargs' = [kwargs EXCEPT ![c] = kw]
  /\ sent' = [sent EXCEPT ![c] = << >>]
  /\ calls[c] < limit[c]
  /\ calls' = [calls EXCEPT ![c] = @ + 1]
  /\ op' = [op EXCEPT ![c] = method]
  /\ pc' = [pc EXCEPT ![c] = "nfi_read"]
  /\ fid' = [fid EXCEPT ![c] = 0]
  /\ tmp' = [tmp EXCEPT ![c] = 0]
  /\ frame_id' = [frame_id EXCEPT ![c] = 0]
  /\ elapsed' = [elapsed EXCEPT ![c] = 0]
  /\ frame' = [frame EXCEPT ![c] = NoFrame]
  /\ result' = [result EXCEPT ![c] = NoResult]
  /\ matched' = [matched EXCEPT ![c] = FALSE]
  /\ rx' = NoDelivery
  /\ UNCHANGED <<_frame_id, _rx_frames, pending, inst, limit, timedout, consumed, pins>>

\* The keyword arguments of a node-name request to the local module.
NodeName == [command |-> "NI"]

\* A caller calls _send_and_wait (line 199); line 204 enters next_frame_id.
CallSendAndWait(c) == Enter(c, "_send_and_wait", NodeName) /\ UNCHANGED <<cop, cres>>

\* A caller reads the property next_frame_id (line 163) by itself.
CallNextFrameId(c) == Enter(c, "next_frame_id", EmptyDict) /\ UNCHANGED <<cop, cres>>

\* ---------------------------------------------------------- next_frame_id

\* Line 169: fid = bytes(bytearray((self._frame_id,))).
NfiRead(c) ==
  /\ pc[c] = "nfi_read"
  /\ IF ByteOfRaises(_frame_id[inst[c]])
     THEN /\ result' = [result EXCEPT ![c] = Raised("ValueError")]
          /\ pc' = [pc EXCEPT ![c] = "done"]
          /\ fid' = fid
     ELSE /\ fid' = [fid EXCEPT ![c] = _frame_id[inst[c]]]
          /\ pc' = [pc EXCEPT ![c] = "nfi_load"]
          /\ result' = result
  /\ UNCHANGED <<_frame_id, _rx_frames, pending, op, inst, tmp, frame_id,
                 elapsed, frame, calls, limit, matched, timedout, consumed>>
  /\ UNCHANGED extra
  /\ rx' = NoDelivery

\* Line 170, self._frame_id += 1: the load, then the store of the sum.
NfiIncrement(c) ==
  /\ pc[c] \in {"nfi_load", "nfi_store"}
  /\ IF pc[c] = "nfi_load"
     THEN /\ tmp' = [tmp EXCEPT ![c] = _frame_id[inst[c]]]
          /\ pc' = [pc EXCEPT ![c] = "nfi_store"]
          /\ _frame_id' = _frame_id
     ELSE /\ _frame_id' = [_frame_id EXCEPT ![inst[c]] = tmp[c] + 1]
          /\ tmp' = [tmp EXCEPT ![c] = 0]
          /\ pc' = [pc EXCEPT ![c] = "nfi_check"]
  /\ UNCHANGED <<_rx_frames, pending, op, inst, fid, frame_id, elapsed, frame,
                 result, calls, limit, matched, timedout, consumed>>
  /\ UNCHANGED extra
  /\ rx' = NoDelivery

\* Line 171 with >= for >: the counter wraps one frame ID early.
WrapNeededOffByOne(n) == n >= MaxFrameId

\* Line 171: the counter has passed the last frame ID.
WrapNeeded(n) == n > MaxFrameId

\* Lines 171-172: the comparison and, in a second step, self._frame_id = 1.
NfiWrap(c) ==
  /\ pc[c] \in {"nfi_check", "nfi_reset"}
  /\ IF pc[c] = "nfi_check"
     THEN /\ pc' = [pc EXCEPT ![c] =
                      IF WrapNeeded(_frame_id[inst[c]])
                      THEN "nfi_reset" ELSE "nfi_del"]
          /\ _frame_id' = _frame_id
     ELSE /\ _frame_id' = [_frame_id EXCEPT ![inst[c]] = 1]
          /\ pc' = [pc EXCEPT ![c] = "nfi_del"]
  /\ UNCHANGED <<_rx_frames, pending, op, inst, fid, tmp, frame_id, elapsed,
                 frame, result, calls, limit, matched, timedout, consumed>>
  /\ UNCHANGED extra
  /\ rx' = NoDelivery

\* next_frame_id without lines 173-176: the stale entry stays.
ClearStaleSkip(d, k) == d

\* Lines 173-176 as self._rx_frames.clear(): every entry goes.
ClearStaleAll(d, k) == EmptyDict

\* Lines 173-176: del self._rx_frames[fid], KeyError swallowed.
ClearStale(d, k) == DictDel(d, k)

\* Lines 173-176: the entry stored under fid, if any, is deleted.
NfiDelete(c) ==
  /\ pc[c] = "nfi_del"
  /\ _rx_frames' = ClearStale(_rx_frames, fid[c])
  /\ pc' = [pc EXCEPT ![c] = "nfi_ret"]
  /\ matched' = [matched EXCEPT ![c] = FALSE]
  /\ UNCHANGED <<_frame_id, pending, op, inst, fid, tmp, frame_id, elapsed,
                 frame, result, calls, limit, timedout, consumed>>
  /\ UNCHANGED extra
  /\ rx' = NoDelivery

\* Line 177: fid is returned, to the caller of the property or to line 204 of
\* _send_and_wait.
NfiReturn(c) ==
  /\ pc[c] = "nfi_ret"
  /\ IF op[c] = "next_frame_id"
     THEN /\ result' = [result EXCEPT ![c] = ReturnedId(fid[c])]
          /\ pc' = [pc EXCEPT ![c] = "done"]
          /\ frame_id' = frame_id
     ELSE /\ frame_id' = [frame_id EXCEPT ![c] = fid[c]]
          /\ pc' = [pc EXCEPT ![c] = "send"]
          /\ result' = result
  /\ UNCHANGED <<_frame_id, _rx_frames, pending, op, inst, fid, tmp, elapsed,
                 frame, calls, limit, matched, timedout, consumed>>
  /\ UNCHANGED extra
  /\ rx' = NoDelivery

\* ---------------------------------------------------------- _send_and_wait

\* _send with the test of line 194 inverted.
_send_inverted(kw) == IF DictGet(kw, "dest_addr_long") # "None" THEN "at" ELSE "remote_at"

\* _send, lines 194-197: the transport method the request goes out by.
_send(kw) == IF DictGet(kw, "dest_addr_long") # "None" THEN "remote_at" ELSE "at"

\* Lines 205-207: frame_id joins the keyword arguments, the request goes out
\* and the deadline is set.  The module answers it later, or never.
Send(c) ==
  /\ pc[c] = "send"
  /\ kwargs' = [kwargs EXCEPT ![c] = DictPut(@, "frame_id", frame_id[c])]
  /\ sent' = [sent EXCEPT ![c] =
                Append(@, [method |-> _send(kwargs'[c]), kwargs |-> kwargs'[c]])]
  /\ \E answered \in BOOLEAN :
       /\ answered => Cardinality(pending) < MaxPending
       /\ pending' = IF answered
                     THEN pending \cup {Sent(kwargs'[c], Req(c))}
                     ELSE pending
  /\ elapsed' = [elapsed EXCEPT ![c] = 0]
  /\ pc' = [pc EXCEPT ![c] = "loop"]
  /\ UNCHANGED <<_frame_id, _rx_frames, op, inst, fid, tmp, frame_id, frame,
                 result, calls, limit, matched, timedout, consumed, pins,
                 cop, cres>>
  /\ rx' = NoDelivery

\* Line 208 giving up one poll interval before the deadline.
BeforeDeadlineEarly(t) == t + PollTicks < RxTimeoutTicks

\* Line 208: datetime.now() < timeout.
BeforeDeadline(t) == t < RxTimeoutTicks

\* _send_and_wait without line 217: past the deadline the call falls off the
\* loop and returns (None) instead of raising.
LoopCheckNoRaise(c) ==
  /\ pc[c] = "loop"
  /\ IF BeforeDeadline(elapsed[c])
     THEN /\ pc' = [pc EXCEPT ![c] = "pop"]
          /\ UNCHANGED <<result, timedout>>
     ELSE /\ result' = [result EXCEPT ![c] = Returned(NoFrame)]
          /\ timedout' = timedout \cup {Req(c)}
          /\ pc' = [pc EXCEPT ![c] = "done"]
  /\ UNCHANGED <<_frame_id, _rx_frames, pending, op, inst, fid, tmp, frame_id,
                 elapsed, frame, calls, limit, matched, consumed>>
  /\ UNCHANGED extra
  /\ rx' = NoDelivery

\* Line 208, and lines 216-217 once the deadline has passed.
LoopCheck(c) ==
  /\ pc[c] = "loop"
  /\ IF BeforeDeadline(elapsed[c])
     THEN /\ pc' = [pc EXCEPT ![c] = "pop"]
          /\ UNCHANGED <<result, timedout>>
     ELSE /\ result' = [result EXCEPT ![c] = Raised("ZigBeeResponseTimeout")]
          /\ timedout' = timedout \cup {Req(c)}
          /\ pc' = [pc EXCEPT ![c] = "done"]
  /\ UNCHANGED <<_frame_id, _rx_frames, pending, op, inst, fid, tmp, frame_id,
                 elapsed, frame, calls, limit, matched, consumed>>
  /\ UNCHANGED extra
  /\ rx' = NoDelivery

\* Line 210 as self._rx_frames.popitem(): any stored frame is taken.
PopAny(c) ==
  /\ pc[c] = "pop"
  /\ IF DOMAIN _rx_frames # {}
     THEN \E k \in DOMAIN _rx_frames :
            /\ frame' = [frame EXCEPT ![c] = _rx_frames[k]]
            /\ _rx_frames' = DictDel(_rx_frames, k)
            /\ consumed' = consumed \cup {_rx_frames[k].req}
            /\ pc' = [pc EXCEPT ![c] = "classify"]
     ELSE /\ pc' = [pc EXCEPT ![c] = "sleep"]
          /\ UNCHANGED <<frame, _rx_frames, consumed>>
  /\ UNCHANGED <<_frame_id, pending, op, inst, fid, tmp, frame_id, elapsed,
                 result, calls, limit, matched, timedout>>
  /\ UNCHANGED extra
  /\ rx' = NoDelivery

\* Line 210 as frame = self._rx_frames[frame_id]: the frame is read and
\* stays in the store.
PopPeek(c) ==
  /\ pc[c] = "pop"
  /\ IF frame_id[c] \in DOMAIN _rx_frames
     THEN /\ frame' = [frame EXCEPT ![c] = _rx_frames[frame_id[c]]]
          /\ consumed' = consumed \cup {_rx_frames[frame_id[c]].req}
          /\ pc' = [pc EXCEPT ![c] = "classify"]
     ELSE /\ pc' = [pc EXCEPT ![c] = "sleep"]
          /\ UNCHANGED <<frame, consumed>>
  /\ UNCHANGED <<_frame_id, _rx_frames, pending, op, inst, fid, tmp, frame_id,
                 elapsed, result, calls, limit, matched, timedout>>
  /\ UNCHANGED extra
  /\ rx' = NoDelivery

\* Line 210: frame = self._rx_frames.pop(frame_id); KeyError goes to line 213.
Pop(c) ==
  /\ pc[c] = "pop"
  /\ IF frame_id[c] \in DOMAIN _rx_frames
     THEN /\ frame' = [frame EXCEPT ![c] = _rx_frames[frame_id[c]]]
          /\ _rx_frames' = DictDel(_rx_frames, frame_id[c])
          /\ consumed' = consumed \cup {_rx_frames[frame_id[c]].req}
          /\ pc' = [pc EXCEPT ![c] = "classify"]
     ELSE /\ pc' = [pc EXCEPT ![c] = "sleep"]
          /\ UNCHANGED <<frame, _rx_frames, consumed>>
  /\ UNCHANGED <<_frame_id, pending, op, inst, fid, tmp, frame_id, elapsed,
                 result, calls, limit, matched, timedout>>
  /\ UNCHANGED extra
  /\ rx' = NoDelivery

\* Lines 211-212: raise_if_error(frame), then return frame.
Classify(c) ==
  /\ pc[c] = "classify"
  /\ result' = [result EXCEPT ![c] =
                  IF raise_if_error(frame[c]) = "None"
                  THEN Returned(frame[c])
                  ELSE Raised(raise_if_error(frame[c]))]
  /\ pc' = [pc EXCEPT ![c] = "done"]
  /\ UNCHANGED <<_frame_id, _rx_frames, pending, op, inst, fid, tmp, frame_id,
                 elapsed, frame, calls, limit, matched, timedout, consumed>>
  /\ UNCHANGED extra
  /\ rx' = NoDelivery

\* The loop of line 208 comparing against the time it read once, before the
\* loop: the sleeps no longer bring the deadline closer.
SleepClockNotReread(c) ==
  /\ pc[c] = "sleep"
  /\ pc' = [pc EXCEPT ![c] = "loop"]
  /\ UNCHANGED <<_frame_id, _rx_frames, pending, op, inst, fid, tmp, frame_id,
                 elapsed, frame, result, calls, limit, matched, timedout, consumed>>
  /\ UNCHANGED extra
  /\ rx' = NoDelivery

\* Lines 214-215: sleep(0.1), then back to line 208.
Sleep(c) ==
  /\ pc[c] = "sleep"
  /\ elapsed' = [elapsed EXCEPT ![c] = @ + PollTicks]
  /\ pc' = [pc EXCEPT ![c] = "loop"]
  /\ UNCHANGED <<_frame_id, _rx_frames, pending, op, inst, fid, tmp, frame_id,
                 frame, result, calls, limit, matched, timedout, consumed>>
  /\ UNCHANGED extra
  /\ rx' = NoDelivery

\* --------------------------------------------------------------- transport

\* The callers that hold the ID k: next_frame_id has made room for it in the
\* store and the call has not yet ended.
Waiting(c, k) ==
  \/ pc[c] = "nfi_ret" /\ fid[c] = k
  \/ pc[c] \in {"send", "loop", "pop", "sleep"} /\ frame_id[c] = k

\* Caller c found the store empty at line 210 less than one poll interval
\* before its deadline, or stands past the deadline.
LastPopDone(c) ==
  \/ pc[c] = "sleep" /\ elapsed[c] + PollTicks >= RxTimeoutTicks
  \/ pc[c] = "loop" /\ elapsed[c] >= RxTimeoutTicks

\* Frame f with its history.
Stamp(f) ==
  IF "frame_id" \in DOMAIN f
  THEN LET W == {c \in Callers : Waiting(c, f["frame_id"])}
       IN  [f EXCEPT !.during = {Req(c) : c \in W},
                     !.late = {Req(c) : c \in {x \in W : LastPopDone(x)}}]
  ELSE f

\* The transport's thread calls _frame_received (line 179) with frame f.
Receive(f) ==
  /\ _rx_frames' = _frame_received(_rx_frames, Stamp(f))
  /\ rx' = [called |-> TRUE, frame |-> Stamp(f),
            replaced |-> "frame_id" \in DOMAIN f /\ f["frame_id"] \in DOMAIN _rx_frames]
  /\ matched' = [c \in Callers |->
                   matched[c] \/ ("frame_id" \in DOMAIN f /\ Waiting(c, f["frame_id"]))]
  /\ UNCHANGED <<_frame_id, pc, op, inst, fid, tmp, frame_id, elapsed, frame,
                 result, calls, limit, timedout, consumed, kwargs, sent, cop, cres>>

\* The response to a request arrives.  The module refused the request and
\* answers with a non-zero status byte, or it carried the request out and
\* answers with status byte 0 or with no status.
DeliverResponse ==
  \E r \in pending :
    /\ pending' = pending \ {r}
    /\ \/ /\ \E st \in StatusBytes \ {0} :
               Receive(DictPut(MkFrame(r.rq["frame_id"], r.req), "status", st))
          /\ pins' = pins
       \/ \E a \in ModuleAnswers(r.rq, pins, r.req) :
            /\ Receive(a.frame) \/ Receive(DictPut(a.frame, "status", 0))
            /\ pins' = a.pins

\* A frame that carries no frame_id arrives (an unsolicited I/O sample).
DeliverUnsolicited ==
  /\ Receive(NoFrame)
  /\ UNCHANGED <<pending, pins>>

\* ---------------------------------------------------------- pin operations

\* The pin numbers the operations are called with.
PinNumbers == (0 - MaxPin - 1) .. MaxPin

\* A pin operation as called: its name and arguments.
PinOp(name, pin_number, dest_addr_long) ==
  [name |-> name, pin_number |-> pin_number, dest_addr_long |-> dest_addr_long]

\* The pin operation caller c is in, or was in last.
LastOp(c) == cop[c][Len(cop[c])]

LastRes(c) == cres[c][Len(cres[c])]

ReturnedValue(v) == [kind |-> "return", value |-> v]

ReturnedSetting(g) == [kind |-> "return", setting |-> g]

ReturnedNone == [kind |-> "return"]

\* An operation raises while it evaluates the arguments of _send_and_wait
\* (lines 265, 274): nothing is sent.
FailArgs(c, o, e) ==
  /\ Idle(c)
  /\ calls[c] < limit[c]
  /\ calls' = [calls EXCEPT ![c] = @ + 1]
  /\ cop' = [cop EXCEPT ![c] = Append(@, o)]
  /\ cres' = [cres EXCEPT ![c] = Append(@, Raised(e))]
  /\ op' = [op EXCEPT ![c] = o.name]
  /\ pc' = [pc EXCEPT ![c] = "done"]
  /\ kwargs' = [kwargs EXCEPT ![c] = EmptyDict]
  /\ sent' = [sent EXCEPT ![c] = << >>]
  /\ result' = [result EXCEPT ![c] = NoResult]
  /\ frame' = [frame EXCEPT ![c] = NoFrame]
  /\ rx' = NoDelivery
  /\ UNCHANGED <<_frame_id, _rx_frames, pending, inst, fid, tmp, frame_id,
                 elapsed, limit, matched, timedout, consumed, pins>>

\* An operation calls _send_and_wait with the keyword arguments kw.
CallArgs(c, o, kw) ==
  /\ Enter(c, "_send_and_wait", kw)
  /\ cop' = [cop EXCEPT ![c] = Append(@, o)]
  /\ cres' = cres

\* get_sample, lines 230-233, from the call of _send_and_wait on.
get_sample(c, o) ==
  CallArgs(c, o, [command |-> "IS", dest_addr_long |-> o.dest_addr_long])

\* read_digital_pin(n, d), line 239.
read_digital_pin(c, n, d) == get_sample(c, PinOp("read_digital_pin", n, d))

\* read_analog_pin(n, d), line 251.
read_analog_pin(c, n, d) == get_sample(c, PinOp("read_analog_pin", n, d))

\* set_gpio_pin(n, g, d), lines 263-267, with g one of the six settings (the
\* assert of line 263 passes).
set_gpio_pin(c, n, g, d) ==
  LET o == [name |-> "set_gpio_pin", pin_number |-> n, setting |-> g,
            dest_addr_long |-> d]
  IN  IF TupleIndexRaises(IO_PIN_COMMANDS, n)
      THEN FailArgs(c, o, "IndexError")
      ELSE CallArgs(c, o, [command |-> TupleIndex(IO_PIN_COMMANDS, n),
                           parameter |-> g.value,
                           dest_addr_long |-> d])

\* get_gpio_pin(n, d), lines 273-274.
get_gpio_pin(c, n, d) ==
  LET o == PinOp("get_gpio_pin", n, d)
  IN  IF TupleIndexRaises(IO_PIN_COMMANDS, n)
      THEN FailArgs(c, o, "IndexError")
      ELSE CallArgs(c, o, [command |-> TupleIndex(IO_PIN_COMMANDS, n),
                           dest_addr_long |-> d])

\* A caller calls a pin operation, with any pin number, setting and
\* destination.
CallReadDigitalPin(c) ==
  /\ Idle(c)
  /\ calls[c] < limit[c]
  /\ \E n \in PinNumbers, d \in Dests : read_digital_pin(c, n, d)

CallReadAnalogPin(c) ==
  /\ Idle(c)
  /\ calls[c] < limit[c]
  /\ \E n \in PinNumbers, d \in Dests : read_analog_pin(c, n, d)

CallSetGpioPin(c) ==
  /\ Idle(c)
  /\ calls[c] < limit[c]
  /\ \E n \in PinNumbers, g \in Settings, d \in Dests : set_gpio_pin(c, n, g, d)

CallGetGpioPin(c) ==
  /\ Idle(c)
  /\ calls[c] < limit[c]
  /\ \E n \in PinNumbers, d \in Dests : get_gpio_pin(c, n, d)

\* A caller whose set_gpio_pin has returned calls get_gpio_pin for the same
\* pin of the same module.
CallGetGpioPinAgain(c) ==
  /\ Idle(c)
  /\ calls[c] < limit[c]
  /\ cop[c] # << >>
  /\ LastOp(c).name = "set_gpio_pin"
  /\ LastRes(c).kind = "return"
  /\ get_gpio_pin(c, LastOp(c).pin_number, LastOp(c).dest_addr_long)

\* Lines 231-233: the sample of a frame, {} when it has no parameter.
SampleOf(f) == IF "parameter" \in DOMAIN f THEN f["parameter"][1] ELSE EmptyDict

\* Lines 240-245 and 252-257 with sample.get(...): a pin the sample lacks
\* reads as None.
ReadPinLenient(table, sample, n) ==
  IF TupleIndexRaises(table, n)
  THEN Raised("IndexError")
  ELSE IF TupleIndex(table, n) \in DOMAIN sample
       THEN ReturnedValue(sample[TupleIndex(table, n)])
       ELSE ReturnedNone

\* Lines 240-245 and 252-257: sample[table[pin_number]], the KeyError of a
\* pin the sample lacks turned into ZigBeePinNotConfigured.
ReadPin(table, sample, n) ==
  IF TupleIndexRaises(table, n)
  THEN Raised("IndexError")
  ELSE IF TupleIndex(table, n) \in DOMAIN sample
       THEN ReturnedValue(sample[TupleIndex(table, n)])
       ELSE Raised("ZigBeePinNotConfigured")

\* Lines 275-276: GPIO_SETTINGS[frame["parameter"]]; a missing parameter and
\* a byte outside the table both raise KeyError.
DecodeSetting(f) ==
  IF "parameter" \notin DOMAIN f
  THEN Raised("KeyError")
  ELSE IF f["parameter"] \notin DOMAIN GPIO_SETTINGS
       THEN Raised("KeyError")
       ELSE ReturnedSetting(GPIO_SETTINGS[f["parameter"]])

\* How operation o ends once _send_and_wait has ended with r: an exception
\* passes through, a frame is decoded.
Outcome(o, r) ==
  IF r.kind = "raise"
  THEN r
  ELSE CASE o.name = "read_digital_pin" ->
              ReadPin(DIGITAL_PINS, SampleOf(r.frame), o.pin_number)
         [] o.name = "read_analog_pin" ->
              ReadPin(ANALOG_PINS, SampleOf(r.frame), o.pin_number)
         [] o.name = "set_gpio_pin" -> ReturnedNone
         [] o.name = "get_gpio_pin" -> DecodeSetting(r.frame)

\* The rest of a pin operation after _send_and_wait.
PinReturn(c) ==
  /\ pc[c] = "done"
  /\ CodecOpen(c)
  /\ cres' = [cres EXCEPT ![c] = Append(@, Outcome(LastOp(c), result[c]))]
  /\ rx' = NoDelivery
  /\ UNCHANGED <<_frame_id, _rx_frames, pending, pc, op, inst, fid, tmp,
                 frame_id, elapsed, frame, result, calls, limit, matched,
                 timedout, consumed, kwargs, sent, pins, cop>>

\* ----------------------------------------------------------- specifications

Engine(c) ==
  \/ NfiRead(c) \/ NfiIncrement(c) \/ NfiWrap(c) \/ NfiDelete(c) \/ NfiReturn(c)
  \/ Send(c) \/ LoopCheck(c) \/ Pop(c) \/ Classify(c) \/ Sleep(c)

Next ==
  \/ \E c \in Callers : CallSendAndWait(c) \/ Engine(c)
  \/ DeliverResponse
  \/ DeliverUnsolicited

Spec == Init /\ [][Next]_vars

\* The caller's thread keeps running and the clock keeps advancing; nothing
\* is assumed of the transport.
FairSpec == Spec /\ \A c \in Callers : WF_vars(Engine(c))

\* One caller reads next_frame_id MaxAllocs times.
InitAlloc ==
  /\ InitFresh
  /\ limit = [c \in Callers |-> IF c = 1 THEN MaxAllocs ELSE 0]

Allocator(c) ==
  NfiRead(c) \/ NfiIncrement(c) \/ NfiWrap(c) \/ NfiDelete(c) \/ NfiReturn(c)

NextAlloc == \E c \in Callers : CallNextFrameId(c) \/ Allocator(c)

SpecAlloc == InitAlloc /\ [][NextAlloc]_vars

\* Two callers read next_frame_id of one helper at the same time.  The helper
\* is new, or has served requests up to the last frame IDs before.
InitRace ==
  /\ InitCommon
  /\ inst = [c \in Callers |-> 1]
  /\ \E n \in {1, MaxFrameId} : _frame_id = [h \in Helpers |-> IF h = 1 THEN n ELSE 1]
  /\ pending = {}
  /\ timedout = {}
  /\ limit = [c \in Callers |-> 1]

SpecRace == InitRace /\ [][NextAlloc]_vars

\* Two callers call _send_and_wait of one helper at the same time.
InitConc ==
  /\ InitFresh
  /\ limit = [c \in Callers |-> 1]

SpecConc == InitConc /\ [][Next]_vars

\* A helper that has been in use: an earlier request, sent under frame ID 1,
\* raised ZigBeeResponseTimeout and its response is still on its way, and the
\* requests since have taken the counter to the last frame ID.  One caller
\* goes on to call _send_and_wait MaxCalls times.
EarlierRequest == <<1, 0>>

InitWrap ==
  /\ InitCommon
  /\ inst = [c \in Callers |-> 1]
  /\ _frame_id = [h \in Helpers |-> IF h = 1 THEN MaxFrameId ELSE 1]
  /\ pending = {Sent(DictPut(NodeName, "frame_id", 1), EarlierRequest)}
  /\ timedout = {EarlierRequest}
  /\ limit = [c \in Callers |-> IF c = 1 THEN MaxCalls ELSE 0]

SpecWrap == InitWrap /\ [][Next]_vars

\* Two helpers, constructed over two serial ports, each called by one caller.
InitTwo ==
  /\ InitCommon
  /\ inst = [c \in Callers |-> c]
  /\ _frame_id = [h \in Helpers |-> 1]
  /\ pending = {}
  /\ timedout = {}
  /\ limit = [c \in Callers |-> 1]

SpecTwo == InitTwo /\ [][Next]_vars

\* One caller calls one pin operation on a new helper.
InitPins ==
  /\ InitFresh
  /\ limit = [c \in Callers |-> IF c = 1 THEN 1 ELSE 0]

NextPins ==
  \/ \E c \in Callers :
        \/ CallReadDigitalPin(c) \/ CallReadAnalogPin(c)
        \/ CallSetGpioPin(c) \/ CallGetGpioPin(c)
        \/ Engine(c) \/ PinReturn(c)
  \/ DeliverResponse
  \/ DeliverUnsolicited

SpecPins == InitPins /\ [][NextPins]_vars

\* One caller calls set_gpio_pin on a new helper and, when that has returned,
\* get_gpio_pin.
InitRoundTrip ==
  /\ InitFresh
  /\ limit = [c \in Callers |-> IF c = 1 THEN 2 ELSE 0]

NextRoundTrip ==
  \/ \E c \in Callers :
        \/ calls[c] = 0 /\ CallSetGpioPin(c)
        \/ CallGetGpioPinAgain(c)
        \/ Engine(c) \/ PinReturn(c)
  \/ DeliverResponse
  \/ DeliverUnsolicited

SpecRoundTrip == InitRoundTrip /\ [][NextRoundTrip]_vars

\* ------------------------------------------------------------------ claims

\* Caller c's call of _send_and_wait has ended.
SawDone(c) == pc[c] = "done" /\ op[c] = "_send_and_wait"

\* Caller c's call popped a frame from the store (line 210 succeeded).
Popped(c) == "frame_id" \in DOMAIN frame[c]

\* C1: whenever _send_and_wait returns a frame, the frame carries the frame ID
\* allocated for that call; frames delivered under other IDs are not returned.
C1_ReturnsOwnFrameId ==
  \A c \in Callers :
    (SawDone(c) /\ result[c].kind = "return") =>
      /\ "frame_id" \in DOMAIN result[c].frame
      /\ result[c].frame["frame_id"] = frame_id[c]

\* A call returned its frame while a frame delivered under another ID lies in
\* the store.
C1_Witness ==
  /\ SawDone(1)
  /\ result[1].kind = "return"
  /\ \E k \in DOMAIN _rx_frames : k # frame_id[1]

\* C2: the k-th call of next_frame_id by a single caller returns
\* ((k-1) mod 255) + 1: 1 first, always in 1..255, and 1 again after 255.
C2_KthFrameId ==
  \A c \in Callers :
    (pc[c] = "done" /\ op[c] = "next_frame_id") =>
      /\ result[c].kind = "return"
      /\ result[c].id = ((calls[c] - 1) % 255) + 1
      /\ result[c].id \in 1 .. 255

\* The 256th call has returned 1: the counter has wrapped.
C2_Witness ==
  /\ pc[1] = "done"
  /\ op[1] = "next_frame_id"
  /\ calls[1] = 256
  /\ result[1] = ReturnedId(1)

\* C3: if no frame carrying the allocated frame ID is delivered between the
\* allocation and the deadline, _send_and_wait raises ZigBeeResponseTimeout.
C3_TimeoutWhenNothingDelivered ==
  \A c \in Callers :
    (SawDone(c) /\ ~matched[c]) => result[c] = Raised("ZigBeeResponseTimeout")

\* A call ended with the timeout while a frame under another ID had been
\* delivered and none under its own.
C3_Witness ==
  /\ SawDone(1)
  /\ ~matched[1]
  /\ result[1] = Raised("ZigBeeResponseTimeout")
  /\ _rx_frames # EmptyDict

\* C4: two callers in _send_and_wait at the same time each return the response
\* to their own request, never the response to the other's.
C4_EachCallerOwnResponse ==
  \A c \in Callers :
    (SawDone(c) /\ result[c].kind = "return") => result[c].frame.req = Req(c)

\* C5: two callers in next_frame_id at the same time both get a frame ID in
\* 1..255, and the two IDs differ.
C5_ConcurrentIdsDistinct ==
  /\ \A c \in Callers :
       pc[c] = "done" => (result[c].kind = "return" /\ result[c].id \in 1 .. 255)
  /\ (pc[1] = "done" /\ pc[2] = "done" /\ result[1].kind = "return"
        /\ result[2].kind = "return") => result[1].id # result[2].id

ExpectedError(st) ==
  CASE st = 1 -> "ZigBeeUnknownError"
    [] st = 2 -> "ZigBeeInvalidCommand"
    [] st = 3 -> "ZigBeeInvalidParameter"
    [] st = 4 -> "ZigBeeTxFailure"
    [] OTHER -> "ZigBeeUnknownStatus"

\* C7: a matched frame with a non-zero status byte makes the call fail with
\* the mapped error: 1 unknown error, 2 invalid command, 3 invalid parameter,
\* 4 tx failure, any other byte unknown status.
C7_StatusMapsToError ==
  \A c \in Callers :
    (SawDone(c) /\ Popped(c) /\ "status" \in DOMAIN frame[c] /\ frame[c]["status"] # 0) =>
      result[c] = Raised(ExpectedError(frame[c]["status"]))

\* Calls failed on a status byte of the table and on one outside it.
C7_Witness ==
  /\ SawDone(1)
  /\ Popped(1)
  /\ "status" \in DOMAIN frame[1]
  /\ frame[1]["status"] = MaxFrameId
  /\ result[1] = Raised("ZigBeeUnknownStatus")
  /\ calls[1] > 1

\* C8: a matched frame with status byte 0, or with no status key, raises no
\* classifier error and is returned to the caller.
C8_SuccessFrameReturned ==
  \A c \in Callers :
    (SawDone(c) /\ Popped(c) /\ ("status" \notin DOMAIN frame[c] \/ frame[c]["status"] = 0)) =>
      result[c] = Returned(frame[c])

\* A frame without a status key was returned.
C8_Witness ==
  /\ SawDone(1)
  /\ Popped(1)
  /\ "status" \notin DOMAIN frame[1]
  /\ result[1] = Returned(frame[1])

\* The three ways a call of _send_and_wait ends.
ThreeOutcomes(c) ==
  \/ result[c].kind = "return" /\ result[c].frame["frame_id"] = frame_id[c]
  \/ result[c].kind = "raise" /\ result[c].exc \in StatusErrors
  \/ result[c] = Raised("ZigBeeResponseTimeout")

\* C9: every call of _send_and_wait ends, whatever the transport delivers or
\* withholds, by returning the matching frame, raising a status-derived error
\* or raising ZigBeeResponseTimeout.
C9_CallTerminates ==
  \A c \in Callers :
    (op[c] = "_send_and_wait" /\ ~Idle(c)) ~> (SawDone(c) /\ ThreeOutcomes(c))

\* The last call of the run ended on a status-derived error while the
\* transport still withheld a response.
C9_Witness ==
  /\ SawDone(1)
  /\ calls[1] = limit[1]
  /\ result[1].kind = "raise"
  /\ result[1].exc \in StatusErrors
  /\ pending # {}

\* C10: when _send_and_wait raises the timeout, the time since the deadline
\* was set is at least RX_TIMEOUT and at most RX_TIMEOUT plus one poll interval.
C10_TimeoutElapsed ==
  \A c \in Callers :
    (SawDone(c) /\ result[c] = Raised("ZigBeeResponseTimeout")) =>
      /\ elapsed[c] >= RxTimeoutTicks
      /\ elapsed[c] <= RxTimeoutTicks + PollTicks

\* A call timed out when the deadline was reached, its response still
\* undelivered.
C10_Witness ==
  /\ SawDone(1)
  /\ result[1] = Raised("ZigBeeResponseTimeout")
  /\ elapsed[1] = RxTimeoutTicks
  /\ \E r \in pending : r.req = Req(1)

\* Caller c's pin operation has ended.
PinDone(c) == cop[c] # << >> /\ ~CodecOpen(c)

\* The valid pin numbers of a pin operation.
ValidPins(name) == IF name = "read_analog_pin" THEN 0 .. 3 ELSE 0 .. 8

\* C11: with a pin number outside the valid range, negative ones included,
\* every pin operation fails with an error: set_gpio_pin and get_gpio_pin
\* send no command, and no operation returns a value.
C11_OutOfRangePinFails ==
  \A c \in Callers :
    (cop[c] # << >> /\ LastOp(c).pin_number \notin ValidPins(LastOp(c).name)) =>
      /\ LastOp(c).name \in {"set_gpio_pin", "get_gpio_pin"} => sent[c] = << >>
      /\ PinDone(c) => LastRes(c).kind = "raise"

\* C12: get_gpio_pin, given a successful response whose parameter byte is
\* none of 0x00 .. 0x05, fails with an error of the ZigBeeException family.
C12_UnknownSettingIsZigBeeException ==
  \A c \in Callers :
    ( /\ PinDone(c)
      /\ LastOp(c).name = "get_gpio_pin"
      /\ LastOp(c).pin_number \in 0 .. 8
      /\ result[c].kind = "return"
      /\ "parameter" \in DOMAIN result[c].frame
      /\ result[c].frame["parameter"] \notin 0 .. 5 ) =>
      /\ LastRes(c).kind = "raise"
      /\ LastRes(c).exc \in ZigBeeExceptions

\* C13: for every pin 0..8, each of the six settings and every destination,
\* against a module that records the byte written for a pin and answers a
\* later query with it, set_gpio_pin followed by get_gpio_pin returns the
\* setting that was set.
C13_SetThenGetRoundTrip ==
  \A c \in Callers :
    ( /\ Len(cres[c]) = 2
      /\ cop[c][1].name = "set_gpio_pin"
      /\ cop[c][2].name = "get_gpio_pin"
      /\ cop[c][1].pin_number \in 0 .. 8
      /\ cop[c][2].pin_number = cop[c][1].pin_number
      /\ cop[c][2].dest_addr_long = cop[c][1].dest_addr_long
      /\ cres[c][1].kind = "return"
      /\ cres[c][2].kind = "return" ) =>
      cres[c][2].setting = cop[c][1].setting

\* The last pin of a remote module was set to DIGITAL_OUTPUT_HIGH and read
\* back.
C13_Witness ==
  /\ Len(cres[1]) = 2
  /\ cop[1][1].pin_number = 8
  /\ cop[1][1].dest_addr_long # "None"
  /\ cop[1][1].setting.name = "DIGITAL_OUTPUT_HIGH"
  /\ cres[1][2].kind = "return"
  /\ cres[1][2].setting.name = "DIGITAL_OUTPUT_HIGH"

\* The name of digital pin i in a sample.
DigitalKey(i) ==
  CASE i = 0 -> "dio-0" [] i = 1 -> "dio-1" [] i = 2 -> "dio-2"
    [] i = 3 -> "dio-3" [] i = 4 -> "dio-4" [] i = 5 -> "dio-5"
    [] i = 6 -> "dio-10" [] i = 7 -> "dio-11" [] i = 8 -> "dio-12"

\* C14: for i in 0..8, read_digital_pin(i) returns the value the sample holds
\* under the i-th digital key when the key is present, and raises
\* ZigBeePinNotConfigured when it is absent, a response without parameter
\* counting as the empty sample.
C14_ReadDigitalPin ==
  \A c \in Callers :
    ( /\ PinDone(c)
      /\ LastOp(c).name = "read_digital_pin"
      /\ LastOp(c).pin_number \in 0 .. 8
      /\ result[c].kind = "return" ) =>
      IF /\ "parameter" \in DOMAIN result[c].frame
         /\ DigitalKey(LastOp(c).pin_number) \in DOMAIN result[c].frame["parameter"][1]
      THEN /\ LastRes(c).kind = "return"
           /\ LastRes(c).value =
                result[c].frame["parameter"][1][DigitalKey(LastOp(c).pin_number)]
      ELSE /\ LastRes(c).kind = "raise"
           /\ LastRes(c).exc = "ZigBeePinNotConfigured"

\* read_digital_pin(6) returned the value of "dio-10".
C14_Witness ==
  /\ PinDone(1)
  /\ LastOp(1).name = "read_digital_pin"
  /\ LastOp(1).pin_number = 6
  /\ result[1].kind = "return"
  /\ "parameter" \in DOMAIN result[1].frame
  /\ "dio-10" \in DOMAIN result[1].frame["parameter"][1]
  /\ LastRes(1).kind = "return"

\* C15: a call of _send_and_wait calls the transport exactly once, with the
\* frame ID allocated for the call, and never again while it waits; by
\* remote_at when a destination is given, by at when it is None.
C15_SentExactlyOnce ==
  \A c \in Callers :
    /\ pc[c] \in {"nfi_read", "nfi_load", "nfi_store", "nfi_check", "nfi_reset",
                   "nfi_del", "nfi_ret", "send"} => sent[c] = << >>
    /\ (pc[c] \in {"loop", "pop", "sleep", "classify"} \/ SawDone(c)) =>
         /\ Len(sent[c]) = 1
         /\ sent[c][1].kwargs["frame_id"] = frame_id[c]
         /\ sent[c][1].kwargs["command"] = kwargs[c]["command"]
         /\ sent[c][1].method = IF LastOp(c).dest_addr_long # "None"
                                THEN "remote_at" ELSE "at"

\* A call to a remote module timed out after a full wait, its request sent
\* once by remote_at.
C15_Witness ==
  /\ SawDone(1)
  /\ result[1] = Raised("ZigBeeResponseTimeout")
  /\ LastOp(1).dest_addr_long # "None"
  /\ Len(sent[1]) = 1
  /\ sent[1][1].method = "remote_at"

\* Every entry of d other than the one under k is in e, unchanged.
OthersUnchanged(d, e, k) ==
  \A x \in DOMAIN d \ {k} : x \in DOMAIN e /\ e[x] = d[x]

\* No entry is in e that is not in d, the one under k aside.
NothingAdded(d, e, k) == DOMAIN e \ {k} \subseteq DOMAIN d

\* The step is caller c's return or raise out of lines 211-212.
ReturnsFrame(c) == pc[c] = "classify" /\ pc'[c] = "done"

\* The step is caller c's successful pop of line 210.
PopsFrame(c) == pc[c] = "pop" /\ pc'[c] = "classify"

\* C16 as stated: when _send_and_wait returns a frame or raises the status
\* error for it, the store holds no entry under that call's frame ID.
C16_NoEntryAtReturn ==
  [][\A c \in Callers : ReturnsFrame(c) => frame_id[c] \notin DOMAIN _rx_frames]_vars

\* C16 amended: a delivered frame is consumed at most once.  The pop of line
\* 210 removes the entry under the call's frame ID and leaves every entry
\* under another ID unchanged; the frame it takes was never popped before,
\* and no popped frame is in the store or on its way again.
C16_ConsumedAtMostOnce ==
  /\ [][\A c \in Callers :
          PopsFrame(c) =>
            /\ frame'[c] = _rx_frames[frame_id[c]]
            /\ frame'[c].req \notin consumed
            /\ frame_id[c] \notin DOMAIN _rx_frames'
            /\ OthersUnchanged(_rx_frames, _rx_frames', frame_id[c])
            /\ NothingAdded(_rx_frames, _rx_frames', frame_id[c])]_vars
  /\ [](\A k \in DOMAIN _rx_frames : _rx_frames[k].req \notin consumed)
  /\ [](\A r \in pending : r.req \notin consumed)

\* A call ended on the frame it popped while a different frame, the late
\* response to the earlier request, lies under the same frame ID, and the
\* response to the call before lies under another.
C16_Witness ==
  /\ SawDone(1)
  /\ Popped(1)
  /\ frame[1].req = Req(1)
  /\ frame_id[1] \in DOMAIN _rx_frames
  /\ _rx_frames[frame_id[1]].req = EarlierRequest
  /\ MaxFrameId \in DOMAIN _rx_frames

\* C17: _frame_received with a frame that carries frame_id sets the store
\* entry under that ID to the frame, replacing an entry that was not
\* consumed, and leaves every other entry unchanged; with a frame without
\* frame_id it leaves the store unchanged; whether or not a call is waiting.
C17_FrameReceivedEffect ==
  [][rx'.called =>
       IF "frame_id" \in DOMAIN rx'.frame
       THEN /\ rx'.frame["frame_id"] \in DOMAIN _rx_frames'
            /\ _rx_frames'[rx'.frame["frame_id"]] = rx'.frame
            /\ OthersUnchanged(_rx_frames, _rx_frames', rx'.frame["frame_id"])
            /\ NothingAdded(_rx_frames, _rx_frames', rx'.frame["frame_id"])
       ELSE _rx_frames' = _rx_frames]_vars

\* A frame was received and replaced an entry under its frame ID while no
\* call was waiting for it, another entry lying in the store.
C17_Witness ==
  /\ rx.called
  /\ rx.replaced
  /\ rx.frame.during = {}
  /\ _rx_frames[rx.frame["frame_id"]] = rx.frame
  /\ \E k \in DOMAIN _rx_frames : k # rx.frame["frame_id"]

\* The step is caller c's return from next_frame_id (line 177).
ReturnsId(c) == pc[c] = "nfi_ret" /\ pc'[c] # "nfi_ret"

\* The step is caller c's deletion of lines 173-176.
DeletesStale(c) == pc[c] = "nfi_del" /\ pc'[c] = "nfi_ret"

\* C18 as stated: at the moment next_frame_id returns an ID the store holds no
\* entry under it, and so a frame delivered before the ID was allocated is
\* never returned as the response of the request.
C18_NoEntryAtAllocation ==
  [][\A c \in Callers : ReturnsId(c) => fid[c] \notin DOMAIN _rx_frames]_vars

\* C18 amended: right after the deletion of lines 173-176 the store holds no
\* entry under the ID and the entries under other IDs are unchanged; a frame
\* that _send_and_wait pops was delivered after that deletion of its call.
C18_ClearedAtDeletion ==
  /\ [][\A c \in Callers :
          DeletesStale(c) =>
            /\ fid[c] \notin DOMAIN _rx_frames'
            /\ OthersUnchanged(_rx_frames, _rx_frames', fid[c])
            /\ NothingAdded(_rx_frames, _rx_frames', fid[c])]_vars
  /\ [](\A c \in Callers : Popped(c) => Req(c) \in frame[c].during)

\* next_frame_id deleted the late response to the earlier request, delivered
\* before the second call was given its frame ID, and left the entry under
\* the last frame ID alone.
C18_Witness ==
  /\ pc[1] = "nfi_ret"
  /\ fid[1] = 1
  /\ \A r \in pending : r.req # EarlierRequest
  /\ 1 \notin DOMAIN _rx_frames
  /\ MaxFrameId \in DOMAIN _rx_frames

\* The step is caller c's raise of ZigBeeResponseTimeout (line 217).
RaisesTimeout(c) ==
  /\ pc[c] = "loop"
  /\ pc'[c] = "done"
  /\ result'[c] = Raised("ZigBeeResponseTimeout")

\* C19 as stated: _send_and_wait raises ZigBeeResponseTimeout only in a state
\* where the store holds no frame under the call's frame ID.
C19_TimeoutOnlyWithoutFrame ==
  [][\A c \in Callers : RaisesTimeout(c) => frame_id[c] \notin DOMAIN _rx_frames]_vars

\* C19 amended: when _send_and_wait raises ZigBeeResponseTimeout, a frame in
\* the store under the call's frame ID was delivered during the call's last
\* sleep, less than one poll interval before the deadline, or past the
\* deadline; a frame delivered earlier has been popped.
C19_TimeoutLeavesOnlyLateFrames ==
  [][\A c \in Callers :
       (RaisesTimeout(c) /\ frame_id[c] \in DOMAIN _rx_frames) =>
         Req(c) \in _rx_frames[frame_id[c]].late]_vars

\* A call timed out after a full wait while its response, delivered during
\* its last sleep, lies in the store.
C19_Witness ==
  /\ SawDone(1)
  /\ result[1] = Raised("ZigBeeResponseTimeout")
  /\ elapsed[1] = RxTimeoutTicks
  /\ frame_id[1] \in DOMAIN _rx_frames
  /\ _rx_frames[frame_id[1]].req = Req(1)
  /\ Req(1) \in _rx_frames[frame_id[1]].late

\* C20: with two helpers, a frame delivered to the callback of one is never
\* popped by _send_and_wait of the other, and next_frame_id of one never
\* deletes an entry the other stored.
C20_HelpersIsolated ==
  /\ [](\A c \in Callers : Popped(c) => inst[frame[c].req[1]] = inst[c])
  /\ [][\A c \in Callers :
          DeletesStale(c) =>
            \A k \in DOMAIN _rx_frames :
              inst[_rx_frames[k].req[1]] # inst[c] => k \in DOMAIN _rx_frames']_vars

====
